---- MODULE Spec2Model ----
(***************************************************************************)
(* Call-session state machine of the voice intake bot (src/main.py):       *)
(* the session store, the resume-pointer, alias and live-call registries   *)
(* (src/app/app/state.py, re-defined in src/main.py) and the webhook        *)
(* handlers /voice, /voice-menu, /resume-choice, /voice-intake and          *)
(* /voice-process.  Every handler runs as one atomic action against the     *)
(* store; in SpecRace a /voice-process request that is delivered again      *)
(* loads its session in one step and writes in a later one.  A store that   *)
(* is not configured, or configured and not reachable, is explored in       *)
(* SpecDegraded.  Text values are sequences of one-character strings, so    *)
(* that strip(), the digit filter and the address format are computed.      *)
(* Keys of a session dict that are written but never read (call_sid,        *)
(* to_number, started_at, name_confirmed) are left out; a missing key and   *)
(* an empty value are read alike by every handler, so a missing key is the  *)
(* empty value.  The expiry of Redis keys is not modelled.  Call legs of    *)
(* the one pair of numbers follow one another; a request of an earlier leg  *)
(* can still arrive later, as a second delivery of its latest request.      *)
(***************************************************************************)
EXTENDS Integers, Sequences, FiniteSets, TLC

VARIABLES
    scope,          \* what is explored: the legs, the steps, the duplicates, the answers
    redis_client,   \* TRUE when the key-value store is configured
    reachable,      \* FALSE while the configured store cannot be reached
    session,        \* CallSid -> session dict          (mmeai:call:<sid>)
    alias,          \* new CallSid -> old CallSid        (mmeai:alias:<sid>)
    resume,         \* <<To, From>> -> CallSid           (mmeai:resume:<to>:<from>)
    live,           \* contractor key -> set of CallSids (mmeai:contractor:<k>:calls)
    pc,             \* per call leg: the webhook the platform requests next
    last,           \* per call leg: its latest /voice-process request
    inflight,       \* per call leg: a /voice-process request that has loaded its
                    \* session and has not yet written
    redelivered,    \* number of webhook requests delivered a second time
    turn,           \* the request handled last and what it did
    confirmedJob,   \* CallSid -> description confirmed by a press of 1 at step 2
    submitted,      \* the intakes handed to the completion collaborators
    offered         \* the legs whose menu turn answered with the resume offer

vars == <<scope, redis_client, reachable, session, alias, resume, live, pc, last, inflight,
          redelivered, turn, confirmedJob, submitted, offered>>

store == <<session, alias, resume, live>>

-----------------------------------------------------------------------------
(* Bounds and input sets *)

\* how many requests the platform may deliver a second time
MaxRedeliver == 2

\* the same, where three legs are explored
MaxRedeliverAlias == 3

\* the last step callers answer where three legs are explored
AliasMaxStep == 1

\* the last address part callers give where three legs are explored
AliasMaxPart == 2

\* the same, where the store comes and goes
MaxRedeliverDegraded == 1

\* how many requests run beside the others
MaxInFlight == 1

\* how far the step-3 retries counter is followed
MaxRetries == 3

Legs == {"CA1", "CA2", "CA3"}

LastStep == 4

\* the parts of the service address, in the order step 1 asks for them
AddressParts == <<"house", "street", "city", "zip">>

PartIndex(mode) ==
    IF \E i \in DOMAIN AddressParts : AddressParts[i] = mode
    THEN CHOOSE i \in DOMAIN AddressParts : AddressParts[i] = mode
    ELSE 0

\* two legs, the whole conversation, every answer to every prompt
FullScope == [legs |-> {"CA1", "CA2"}, steps |-> LastStep, parts |-> Len(AddressParts),
              again |-> MaxRedeliver, rich |-> TRUE, late |-> FALSE]

\* three legs, the conversation up to the street of the address, one answer per
\* prompt, and only requests of legs that have ended are delivered again
AliasScope == [legs |-> Legs, steps |-> AliasMaxStep, parts |-> AliasMaxPart,
               again |-> MaxRedeliverAlias, rich |-> FALSE, late |-> TRUE]

\* two legs and every answer, one request delivered again, after its leg ended
DegradedScope == [legs |-> {"CA1", "CA2"}, steps |-> LastStep,
                  parts |-> Len(AddressParts), again |-> MaxRedeliverDegraded,
                  rich |-> TRUE, late |-> TRUE]

\* the same with callers who answer every prompt with what it asks for
CooperativeScope == [legs |-> {"CA1", "CA2"}, steps |-> LastStep,
                     parts |-> Len(AddressParts), again |-> MaxRedeliverDegraded,
                     rich |-> FALSE, late |-> TRUE]

\* two legs and a cooperative caller; requests run beside the others
RaceScope == [legs |-> {"CA1", "CA2"}, steps |-> LastStep,
              parts |-> Len(AddressParts), again |-> MaxInFlight,
              rich |-> FALSE, late |-> FALSE]

ToNumber == <<"+", "1", "5", "5", "5">>
FromNumber == <<"+", "1", "7", "7", "7">>

LegTo(l) == ToNumber
LegFrom(l) == FromNumber

Empty == <<>>

NoInput == [digits |-> Empty, speech |-> Empty]

Keys(d) == [digits |-> d, speech |-> Empty]

Said(s) == [digits |-> Empty, speech |-> s]

\* What the caller can answer to each prompt (Gather) of the handlers.  A
\* prompt takes speech or keys as its Gather says (input=, num_digits=,
\* finishOnKey=); silence is an answer to every prompt.  The callback prompt
\* gathers speech; a keyed number is among its answers because step 4 reads
\* Digits before SpeechResult.
InputsFor(mode) ==
    CASE mode = "none" -> {NoInput}
      [] mode \in {"menu", "choice", "key"} ->
             {NoInput, Keys(<<"1">>), Keys(<<"2">>), Keys(<<"9">>)}
      [] mode = "house" -> {NoInput, Keys(<<"4", "5">>), Keys(<<"*">>)}
      [] mode = "zip" -> {NoInput, Keys(<<"2", "0", "7", "1", "5">>),
                          Keys(<<"2", "0", "7">>)}
      [] mode = "callback" -> {NoInput, Said(<<"O", "a", "k", " ">>),
                               Said(<<"5", "5", "5", " ", "1", "2", "3", "4">>),
                               Keys(<<"5", "5", "5", "1", "2", "3", "4", "#">>)}
      [] mode = "city" -> {NoInput, Said(<<"B", "o">>)}
      [] OTHER -> {NoInput, Said(<<"O", "a", "k", " ">>)}

\* the answers a cooperative caller gives
PlainInputsFor(mode) ==
    CASE mode = "none" -> {NoInput}
      [] mode = "menu" -> {Keys(<<"2">>)}
      [] mode = "choice" -> {Keys(<<"1">>), Keys(<<"2">>)}
      [] mode = "key" -> {Keys(<<"1">>)}
      [] mode = "house" -> {Keys(<<"4", "5">>)}
      [] mode = "zip" -> {Keys(<<"2", "0", "7", "1", "5">>)}
      [] OTHER -> {Said(<<"O", "a", "k", " ">>)}

-----------------------------------------------------------------------------
(* Text helpers *)

DigitChars == {"0", "1", "2", "3", "4", "5", "6", "7", "8", "9"}

IsDigit(c) == c \in DigitChars

\* "".join([c for c in s if c.isdigit()])
DigitsOnly(s) == SelectSeq(s, IsDigit)

RECURSIVE LStrip(_)
LStrip(s) == IF s # Empty /\ Head(s) = " " THEN LStrip(Tail(s)) ELSE s

RECURSIVE RStrip(_)
RStrip(s) == IF s # Empty /\ s[Len(s)] = " " THEN RStrip(SubSeq(s, 1, Len(s) - 1)) ELSE s

\* str.strip()
Strip(s) == RStrip(LStrip(s))

Unknown == <<"u", "n", "k", "n", "o", "w", "n">>

-----------------------------------------------------------------------------
(* Session dicts *)

\* get_state's {} after the setdefault calls of voice_process
EmptyState ==
    [step |-> 0, retries |-> 0, name |-> Empty, name_candidate |-> Empty,
     name_attempts |-> 0, address_intro_played |-> FALSE,
     addr_number |-> Empty, addr_street |-> Empty, addr_city |-> Empty,
     addr_zip |-> Empty, service_address |-> Empty, job_description |-> Empty,
     timing |-> Empty, callback |-> Empty, contractor_key |-> Empty]

\* variant: the callback is left for step 4 to fill
FreshState_NoCallback(to_number, from_number) ==
    [EmptyState EXCEPT !.contractor_key = IF to_number # Empty THEN to_number ELSE Unknown]

\* the dict voice_intake builds
FreshState(to_number, from_number) ==
    [EmptyState EXCEPT !.callback = from_number,
                       !.contractor_key = IF to_number # Empty THEN to_number ELSE Unknown]

-----------------------------------------------------------------------------
(* Store helpers; each takes the keyspace and returns the keyspace after *)

Put(f, k, v) == [x \in (DOMAIN f) \cup {k} |-> IF x = k THEN v ELSE f[x]]

Del(f, k) == [x \in (DOMAIN f) \ {k} |-> f[x]]

get_state(call_sid) ==
    IF ~redis_client \/ call_sid = "" THEN EmptyState
    ELSE IF call_sid \in DOMAIN session THEN session[call_sid] ELSE EmptyState

set_state(s, call_sid, state) ==
    IF ~redis_client \/ call_sid = "" THEN s ELSE Put(s, call_sid, state)

clear_state(s, call_sid) ==
    IF redis_client /\ call_sid # "" THEN Del(s, call_sid) ELSE s

set_call_alias(a, new_call_sid, old_call_sid) ==
    IF ~redis_client \/ new_call_sid = "" \/ old_call_sid = "" THEN a
    ELSE Put(a, new_call_sid, old_call_sid)

\* "" stands for None
get_call_alias(new_call_sid) ==
    IF ~redis_client \/ new_call_sid = "" THEN ""
    ELSE IF new_call_sid \in DOMAIN alias THEN alias[new_call_sid] ELSE ""

register_live_call(lv, contractor_key, call_sid) ==
    IF ~redis_client \/ contractor_key = Empty \/ call_sid = "" THEN lv
    ELSE Put(lv, contractor_key,
             (IF contractor_key \in DOMAIN lv THEN lv[contractor_key] ELSE {})
                 \cup {call_sid})

\* variant: the set is rewritten without removing the member
unregister_live_call_kept(lv, contractor_key, call_sid) ==
    IF ~redis_client \/ contractor_key = Empty \/ call_sid = "" THEN lv
    ELSE IF contractor_key \in DOMAIN lv
         THEN Put(lv, contractor_key, lv[contractor_key])
         ELSE lv

unregister_live_call(lv, contractor_key, call_sid) ==
    IF ~redis_client \/ contractor_key = Empty \/ call_sid = "" THEN lv
    ELSE IF contractor_key \in DOMAIN lv
         THEN Put(lv, contractor_key, lv[contractor_key] \ {call_sid})
         ELSE lv

list_live_calls(contractor_key) ==
    IF ~redis_client \/ contractor_key = Empty THEN {}
    ELSE IF contractor_key \in DOMAIN live THEN live[contractor_key] ELSE {}

save_resume_pointer(r, to_number, from_number, call_sid) ==
    IF ~redis_client \/ to_number = Empty \/ from_number = Empty \/ call_sid = "" THEN r
    ELSE Put(r, <<to_number, from_number>>, call_sid)

get_resume_pointer(to_number, from_number) ==
    IF ~redis_client THEN ""
    ELSE IF <<to_number, from_number>> \in DOMAIN resume
         THEN resume[<<to_number, from_number>>] ELSE ""

clear_resume_pointer(r, to_number, from_number) ==
    IF ~redis_client THEN r ELSE Del(r, <<to_number, from_number>>)

-----------------------------------------------------------------------------
(* Program constants *)

\* repeats of the name after which the candidate is taken unconfirmed
NameAttemptCap == 2

\* silent step-3 turns after which the call is hung up
TimingRetryCap == 2

ZipLength == 5

MinCallbackDigits == 7

-----------------------------------------------------------------------------
(* /voice-process: what one step does with the loaded session dict.        *)
(* The result names the dict as last saved, whether the resume pointer is  *)
(* saved, the class of the response and the step of the URL it points to,  *)
(* and whether the conversation is closed out.  A response that is a      *)
(* prompt is given by what it asks for.                                    *)

Out(state, ptr, resp, next) ==
    [state |-> state, ptr |-> ptr, resp |-> resp, mode |-> "none", next |-> next,
     close |-> FALSE]

\* a Gather whose action is /voice-process?step=next
Prompt(state, ptr, mode, next) ==
    [state |-> state, ptr |-> ptr, resp |-> "prompt", mode |-> mode, next |-> next,
     close |-> FALSE]

\* variant: the stored step is trusted on resume
resume_step_from_stored(s) == s.step

_resume_step_from_fields(s) ==
    IF Strip(s.name) = Empty THEN 0
    ELSE IF Strip(s.service_address) = Empty THEN 1
    ELSE IF Strip(s.job_description) = Empty THEN 2
    ELSE IF Strip(s.timing) = Empty THEN 3
    ELSE 4

\* variant: the cap is passed only by a third repeat
Step0_CapOffByOne(state, digits, speech) ==
    LET name_candidate == Strip(state.name_candidate)
        attempts == state.name_attempts + 1
    IN  IF name_candidate = Empty /\ speech = Empty
            THEN Prompt(state, "keep", "name", 0)
        ELSE IF speech # Empty /\ name_candidate = Empty
            THEN Prompt([state EXCEPT !.name_candidate = Strip(speech)], "keep", "key", 0)
        ELSE IF digits = Empty
            THEN Prompt(state, "keep", "key", 0)
        ELSE IF digits = <<"2">>
            THEN IF attempts > NameAttemptCap
                 THEN Out([state EXCEPT !.name = Strip(state.name_candidate),
                                        !.name_attempts = 0,
                                        !.name_candidate = Empty,
                                        !.step = 1,
                                        !.retries = 0],
                          "save", "redirect", 1)
                 ELSE Out([state EXCEPT !.name_attempts = attempts,
                                        !.name_candidate = Empty],
                          "keep", "redirect", 0)
        ELSE IF digits = <<"1">>
            THEN Out([state EXCEPT !.name = Strip(state.name_candidate),
                                   !.name_attempts = 0,
                                   !.name_candidate = Empty,
                                   !.retries = 0,
                                   !.step = 1],
                     "save", "redirect", 1)
        ELSE Prompt(state, "keep", "key", 0)

\* variant: every key other than 1 asks for the name again
Step0_OtherKeyRepeats(state, digits, speech) ==
    LET name_candidate == Strip(state.name_candidate)
        attempts == state.name_attempts + 1
    IN  IF name_candidate = Empty /\ speech = Empty
            THEN Prompt(state, "keep", "name", 0)
        ELSE IF speech # Empty /\ name_candidate = Empty
            THEN Prompt([state EXCEPT !.name_candidate = Strip(speech)], "keep", "key", 0)
        ELSE IF digits = Empty
            THEN Prompt(state, "keep", "key", 0)
        ELSE IF digits = <<"1">>
            THEN Out([state EXCEPT !.name = Strip(state.name_candidate),
                                   !.name_attempts = 0,
                                   !.name_candidate = Empty,
                                   !.retries = 0,
                                   !.step = 1],
                     "save", "redirect", 1)
        ELSE IF attempts >= NameAttemptCap
            THEN Out([state EXCEPT !.name = Strip(state.name_candidate),
                                   !.name_attempts = 0,
                                   !.name_candidate = Empty,
                                   !.step = 1,
                                   !.retries = 0],
                     "save", "redirect", 1)
        ELSE Out([state EXCEPT !.name_attempts = attempts,
                               !.name_candidate = Empty],
                 "keep", "redirect", 0)

\* STEP 0: client name, speech then a one-key confirmation
Step0(state, digits, speech) ==
    LET name_candidate == Strip(state.name_candidate)
        attempts == state.name_attempts + 1
    IN  IF name_candidate = Empty /\ speech = Empty
            THEN Prompt(state, "keep", "name", 0)
        ELSE IF speech # Empty /\ name_candidate = Empty
            THEN Prompt([state EXCEPT !.name_candidate = Strip(speech)], "keep", "key", 0)
        ELSE IF digits = Empty
            THEN Prompt(state, "keep", "key", 0)
        ELSE IF digits = <<"2">>
            THEN IF attempts >= NameAttemptCap
                 THEN Out([state EXCEPT !.name = Strip(state.name_candidate),
                                        !.name_attempts = 0,
                                        !.name_candidate = Empty,
                                        !.step = 1,
                                        !.retries = 0],
                          "save", "redirect", 1)
                 ELSE Out([state EXCEPT !.name_attempts = attempts,
                                        !.name_candidate = Empty],
                          "keep", "redirect", 0)
        ELSE IF digits = <<"1">>
            THEN Out([state EXCEPT !.name = Strip(state.name_candidate),
                                   !.name_attempts = 0,
                                   !.name_candidate = Empty,
                                   !.retries = 0,
                                   !.step = 1],
                     "save", "redirect", 1)
        ELSE Prompt(state, "keep", "key", 0)

\* variant: city and street change places
FormatAddress_CityFirst(number, street, city, zip) ==
    number \o <<" ">> \o city \o <<",", " ">> \o street \o <<" ">> \o zip

\* f"{addr_number} {addr_street}, {addr_city} {addr_zip}"
FormatAddress(number, street, city, zip) ==
    number \o <<" ">> \o street \o <<",", " ">> \o city \o <<" ">> \o zip

\* variant: the intro is played without being recorded
Step1_IntroNotRecorded(state, digits, speech) ==
    IF ~state.address_intro_played
        THEN Out([state EXCEPT !.retries = 0], "save", "redirect", 1)
    ELSE IF state.addr_number = Empty
        THEN IF digits = Empty THEN Prompt(state, "keep", "house", 1)
             ELSE IF Len(Strip(DigitsOnly(digits))) < 1
                  THEN Out(state, "keep", "redirect", 1)
             ELSE Out([state EXCEPT !.addr_number = Strip(DigitsOnly(digits)),
                                    !.retries = 0],
                      "save", "redirect", 1)
    ELSE IF state.addr_street = Empty
        THEN IF speech = Empty THEN Prompt(state, "keep", "street", 1)
             ELSE Out([state EXCEPT !.addr_street = Strip(speech), !.retries = 0],
                      "save", "redirect", 1)
    ELSE IF state.addr_city = Empty
        THEN IF speech = Empty THEN Prompt(state, "keep", "city", 1)
             ELSE Out([state EXCEPT !.addr_city = Strip(speech), !.retries = 0],
                      "save", "redirect", 1)
    ELSE IF state.addr_zip = Empty
        THEN IF digits = Empty THEN Prompt(state, "keep", "zip", 1)
             ELSE IF Len(DigitsOnly(digits)) # ZipLength
                  THEN Out(state, "keep", "redirect", 1)
             ELSE Out([state EXCEPT !.addr_zip = DigitsOnly(digits), !.retries = 0],
                      "save", "redirect", 1)
    ELSE Prompt([state EXCEPT !.service_address =
                               FormatAddress(state.addr_number, state.addr_street,
                                             state.addr_city, state.addr_zip),
                           !.step = 2,
                           !.retries = 0],
             "save", "job", 2)

\* variant: the zip is stored whatever its length
Step1_AnyZip(state, digits, speech) ==
    IF ~state.address_intro_played
        THEN Out([state EXCEPT !.address_intro_played = TRUE, !.retries = 0],
                 "save", "redirect", 1)
    ELSE IF state.addr_number = Empty
        THEN IF digits = Empty THEN Prompt(state, "keep", "house", 1)
             ELSE IF Len(Strip(DigitsOnly(digits))) < 1
                  THEN Out(state, "keep", "redirect", 1)
             ELSE Out([state EXCEPT !.addr_number = Strip(DigitsOnly(digits)),
                                    !.retries = 0],
                      "save", "redirect", 1)
    ELSE IF state.addr_street = Empty
        THEN IF speech = Empty THEN Prompt(state, "keep", "street", 1)
             ELSE Out([state EXCEPT !.addr_street = Strip(speech), !.retries = 0],
                      "save", "redirect", 1)
    ELSE IF state.addr_city = Empty
        THEN IF speech = Empty THEN Prompt(state, "keep", "city", 1)
             ELSE Out([state EXCEPT !.addr_city = Strip(speech), !.retries = 0],
                      "save", "redirect", 1)
    ELSE IF state.addr_zip = Empty
        THEN IF digits = Empty THEN Prompt(state, "keep", "zip", 1)
             ELSE Out([state EXCEPT !.addr_zip = DigitsOnly(digits), !.retries = 0],
                      "save", "redirect", 1)
    ELSE Prompt([state EXCEPT !.service_address =
                               FormatAddress(state.addr_number, state.addr_street,
                                             state.addr_city, state.addr_zip),
                           !.step = 2,
                           !.retries = 0],
             "save", "job", 2)

\* variant: a zip of the wrong length counts as a retry
Step1_InvalidCounts(state, digits, speech) ==
    IF ~state.address_intro_played
        THEN Out([state EXCEPT !.address_intro_played = TRUE, !.retries = 0],
                 "save", "redirect", 1)
    ELSE IF state.addr_number = Empty
        THEN IF digits = Empty THEN Prompt(state, "keep", "house", 1)
             ELSE IF Len(Strip(DigitsOnly(digits))) < 1
                  THEN Out(state, "keep", "redirect", 1)
             ELSE Out([state EXCEPT !.addr_number = Strip(DigitsOnly(digits)),
                                    !.retries = 0],
                      "save", "redirect", 1)
    ELSE IF state.addr_street = Empty
        THEN IF speech = Empty THEN Prompt(state, "keep", "street", 1)
             ELSE Out([state EXCEPT !.addr_street = Strip(speech), !.retries = 0],
                      "save", "redirect", 1)
    ELSE IF state.addr_city = Empty
        THEN IF speech = Empty THEN Prompt(state, "keep", "city", 1)
             ELSE Out([state EXCEPT !.addr_city = Strip(speech), !.retries = 0],
                      "save", "redirect", 1)
    ELSE IF state.addr_zip = Empty
        THEN IF digits = Empty THEN Prompt(state, "keep", "zip", 1)
             ELSE IF Len(DigitsOnly(digits)) # ZipLength
                  THEN Out([state EXCEPT !.retries = state.retries + 1],
                           "keep", "redirect", 1)
             ELSE Out([state EXCEPT !.addr_zip = DigitsOnly(digits), !.retries = 0],
                      "save", "redirect", 1)
    ELSE Prompt([state EXCEPT !.service_address =
                               FormatAddress(state.addr_number, state.addr_street,
                                             state.addr_city, state.addr_zip),
                           !.step = 2,
                           !.retries = 0],
             "save", "job", 2)

\* STEP 1: service address, the intro once and then the four parts in order
Step1(state, digits, speech) ==
    IF ~state.address_intro_played
        THEN Out([state EXCEPT !.address_intro_played = TRUE, !.retries = 0],
                 "save", "redirect", 1)
    ELSE IF state.addr_number = Empty
        THEN IF digits = Empty THEN Prompt(state, "keep", "house", 1)
             ELSE IF Len(Strip(DigitsOnly(digits))) < 1
                  THEN Out(state, "keep", "redirect", 1)
             ELSE Out([state EXCEPT !.addr_number = Strip(DigitsOnly(digits)),
                                    !.retries = 0],
                      "save", "redirect", 1)
    ELSE IF state.addr_street = Empty
        THEN IF speech = Empty THEN Prompt(state, "keep", "street", 1)
             ELSE Out([state EXCEPT !.addr_street = Strip(speech), !.retries = 0],
                      "save", "redirect", 1)
    ELSE IF state.addr_city = Empty
        THEN IF speech = Empty THEN Prompt(state, "keep", "city", 1)
             ELSE Out([state EXCEPT !.addr_city = Strip(speech), !.retries = 0],
                      "save", "redirect", 1)
    ELSE IF state.addr_zip = Empty
        THEN IF digits = Empty THEN Prompt(state, "keep", "zip", 1)
             ELSE IF Len(DigitsOnly(digits)) # ZipLength
                  THEN Out(state, "keep", "redirect", 1)
             ELSE Out([state EXCEPT !.addr_zip = DigitsOnly(digits), !.retries = 0],
                      "save", "redirect", 1)
    ELSE Prompt([state EXCEPT !.service_address =
                               FormatAddress(state.addr_number, state.addr_street,
                                             state.addr_city, state.addr_zip),
                           !.step = 2,
                           !.retries = 0],
             "save", "job", 2)

\* variant: every key other than 1 discards the description
Step2_AnyKeyRepeats(state, digits, speech) ==
    IF state.job_description = Empty
        THEN IF speech = Empty THEN Prompt(state, "keep", "job", 2)
             ELSE Prompt([state EXCEPT !.job_description = Strip(speech), !.step = 2],
                      "save", "key", 2)
    ELSE IF digits = Empty
        THEN Prompt(state, "keep", "key", 2)
    ELSE IF digits = <<"1">>
        THEN Out([state EXCEPT !.step = 3, !.retries = 0], "save", "redirect", 3)
    ELSE Out([state EXCEPT !.job_description = Empty], "keep", "redirect", 2)

\* STEP 2: job description, then confirm (1) or repeat (2)
Step2(state, digits, speech) ==
    IF state.job_description = Empty
        THEN IF speech = Empty THEN Prompt(state, "keep", "job", 2)
             ELSE Prompt([state EXCEPT !.job_description = Strip(speech), !.step = 2],
                      "save", "key", 2)
    ELSE IF digits = Empty
        THEN Prompt(state, "keep", "key", 2)
    ELSE IF digits = <<"2">>
        THEN Out([state EXCEPT !.job_description = Empty], "keep", "redirect", 2)
    ELSE IF digits = <<"1">>
        THEN Out([state EXCEPT !.step = 3, !.retries = 0], "save", "redirect", 3)
    ELSE Prompt(state, "keep", "key", 2)

\* variant: the timing answer already hands the intake over
Step3_HandsOver(state, digits, speech) ==
    IF speech = Empty
        THEN IF state.retries + 1 >= TimingRetryCap
             THEN Out([state EXCEPT !.retries = state.retries + 1], "keep", "terminal", 3)
             ELSE Prompt([state EXCEPT !.retries = state.retries + 1], "keep", "timing", 3)
    ELSE [state |-> [state EXCEPT !.timing = Strip(speech), !.retries = 0, !.step = 4],
          ptr |-> "save", resp |-> "prompt", mode |-> "callback", next |-> 4,
          close |-> TRUE]

\* STEP 3: timing
Step3(state, digits, speech) ==
    IF speech = Empty
        THEN IF state.retries + 1 >= TimingRetryCap
             THEN Out([state EXCEPT !.retries = state.retries + 1], "keep", "terminal", 3)
             ELSE Prompt([state EXCEPT !.retries = state.retries + 1], "keep", "timing", 3)
    ELSE Prompt([state EXCEPT !.timing = Strip(speech), !.retries = 0, !.step = 4],
             "save", "callback", 4)

\* variant: seven digits are not yet enough
Step4_SevenTooFew(state, digits, speech, from_number) ==
    LET callback_val == Strip(IF digits # Empty THEN digits ELSE speech)
        callback_digits == DigitsOnly(callback_val)
    IN  IF callback_val = Empty
            THEN Prompt(state, "keep", "callback", 4)
        ELSE [state |-> [state EXCEPT !.callback =
                            IF Len(callback_digits) <= MinCallbackDigits
                            THEN Strip(from_number) ELSE callback_digits],
              ptr |-> "clear", resp |-> "terminal", mode |-> "none", next |-> 4,
              close |-> TRUE]

\* STEP 4: callback number; with a usable value the conversation is closed out
Step4(state, digits, speech, from_number) ==
    LET callback_val == Strip(IF digits # Empty THEN digits ELSE speech)
        callback_digits == DigitsOnly(callback_val)
    IN  IF callback_val = Empty
            THEN Prompt(state, "keep", "callback", 4)
        ELSE [state |-> [state EXCEPT !.callback =
                            IF Len(callback_digits) < MinCallbackDigits
                            THEN Strip(from_number) ELSE callback_digits],
              ptr |-> "clear", resp |-> "terminal", mode |-> "none", next |-> 4,
              close |-> TRUE]

StepHandler(step, state, digits, speech, from_number) ==
    CASE step = 0 -> Step0(state, digits, speech)
      [] step = 1 -> Step1(state, digits, speech)
      [] step = 2 -> Step2(state, digits, speech)
      [] step = 3 -> Step3(state, digits, speech)
      [] step = 4 -> Step4(state, digits, speech, from_number)

-----------------------------------------------------------------------------
(* Call legs and the requests the telephony platform makes for them *)

Idle == [at |-> "idle", step |-> 0, old |-> "", mode |-> "none"]

Done == [at |-> "done", step |-> 0, old |-> "", mode |-> "none"]

At(where, step, old, mode) ==
    [at |-> where, step |-> step, old |-> old, mode |-> mode]

NoRequest == [valid |-> FALSE, step |-> 0, input |-> NoInput]

Turn(handler, l, step, inp, sid, eff, resp, again, collab) ==
    [handler |-> handler, leg |-> l, step |-> step, input |-> inp, sid |-> sid,
     eff |-> eff, resp |-> resp, again |-> again, collab |-> collab]

LegIndex(l) == CHOOSE i \in 1..3 : <<"CA1", "CA2", "CA3">>[i] = l

\* a leg that was hung up stays hung up, whatever the response says
Goto(l, target) ==
    [pc EXCEPT ![l] = IF pc[l].at = "done" THEN Done ELSE target]

NotInFlight == [valid |-> FALSE, step |-> 0, input |-> NoInput, sid |-> "",
                state |-> EmptyState]

\* the process has started with or without REDIS_URL; the keyspace is empty
InitWith(sc, client) ==
    /\ scope = sc
    /\ redis_client = client
    /\ reachable = TRUE
    /\ session = <<>>
    /\ alias = <<>>
    /\ resume = <<>>
    /\ live = <<>>
    /\ pc = [l \in Legs |-> Idle]
    /\ last = [l \in Legs |-> NoRequest]
    /\ inflight = [l \in Legs |-> NotInFlight]
    /\ redelivered = 0
    /\ turn = Turn("none", "", 0, NoInput, "", 0, "none", FALSE, "none")
    /\ confirmedJob = <<>>
    /\ submitted = <<>>
    /\ offered = {}

InitIn(sc) == InitWith(sc, TRUE)

Init == InitIn(FullScope)

InitAlias == InitIn(AliasScope)

config == <<scope, redis_client, reachable>>

requests == <<last, inflight, redelivered>>

ghosts == <<confirmedJob, submitted, offered>>

\* A call on the configured client (get, setex, delete, sadd, srem) raises
\* while the store cannot be reached.  No handler catches it: the request
\* ends without an instruction and the platform drops the call.
Raises == redis_client /\ ~reachable

Fails(handler, l, step, inp, again) ==
    /\ pc' = [pc EXCEPT ![l] = Done]
    /\ turn' = Turn(handler, l, step, inp, "", 0, "error", again, "none")
    /\ UNCHANGED <<config, store, ghosts>>

\* /voice: greeting and main menu; reads the contractor directory through its
\* cache in the store
voice(l) ==
    /\ l \in scope.legs
    /\ pc[l].at = "idle"
    \* one caller line: a new leg starts once the legs before it are over
    /\ \A k \in Legs : LegIndex(k) < LegIndex(l) => pc[k].at = "done"
    /\ IF Raises /\ LegTo(l) # Empty
       THEN Fails("voice", l, 0, NoInput, FALSE)
       ELSE /\ pc' = [pc EXCEPT ![l] = At("menu", 0, "", "menu")]
            /\ turn' = Turn("voice", l, 0, NoInput, "", 0, "prompt", FALSE, "none")
            /\ UNCHANGED <<config, store, ghosts>>
    /\ UNCHANGED requests

\* what the caller of leg l can answer to the prompt the leg was given last
Answers(l) == IF scope.rich THEN InputsFor(pc[l].mode) ELSE PlainInputsFor(pc[l].mode)

\* variant: the resume offer is made before the emergency key is looked at
voice_menu_OfferFirst(l, digits) ==
    LET digit == Strip(digits)
        to_number == Strip(LegTo(l))
        from_number == Strip(LegFrom(l))
        lookup == redis_client /\ to_number # Empty /\ from_number # Empty
        old_call_sid == IF lookup THEN get_resume_pointer(to_number, from_number) ELSE ""
        inferred_step == IF old_call_sid # ""
                         THEN _resume_step_from_fields(get_state(old_call_sid)) ELSE 0
    IN  /\ pc[l].at = "menu"
        /\ Keys(digits) \in Answers(l)
        /\ IF Raises /\ lookup
           THEN Fails("voice_menu", l, 0, Keys(digits), FALSE)
           ELSE /\ pc' = [pc EXCEPT ![l] =
                           IF old_call_sid # "" /\ inferred_step > 0
                           THEN At("choice", inferred_step, old_call_sid, "choice")
                           ELSE IF digit = <<"1">> THEN Done
                                ELSE At("intake", 0, "", "none")]
                /\ turn' = Turn("voice_menu", l, 0, Keys(digits),
                                old_call_sid, inferred_step,
                                IF old_call_sid # "" /\ inferred_step > 0
                                THEN "prompt" ELSE "redirect",
                                FALSE, "none")
                /\ offered' = IF old_call_sid # "" /\ inferred_step > 0
                              THEN offered \cup {l} ELSE offered
                /\ UNCHANGED <<config, store, confirmedJob, submitted>>
        /\ UNCHANGED requests

\* /voice-menu: 1 is the emergency branch, anything else the estimate flow
voice_menu(l, digits) ==
    LET digit == Strip(digits)
        to_number == Strip(LegTo(l))
        from_number == Strip(LegFrom(l))
        lookup == redis_client /\ to_number # Empty /\ from_number # Empty
        old_call_sid == IF lookup THEN get_resume_pointer(to_number, from_number) ELSE ""
        inferred_step == IF old_call_sid # ""
                         THEN _resume_step_from_fields(get_state(old_call_sid)) ELSE 0
    IN  /\ pc[l].at = "menu"
        /\ Keys(digits) \in Answers(l)
        /\ IF Raises /\ digit # <<"1">> /\ lookup
           THEN Fails("voice_menu", l, 0, Keys(digits), FALSE)
           ELSE /\ pc' = [pc EXCEPT ![l] =
                           IF digit = <<"1">> THEN Done
                           ELSE IF old_call_sid # "" /\ inferred_step > 0
                                THEN At("choice", inferred_step, old_call_sid, "choice")
                                ELSE At("intake", 0, "", "none")]
                /\ turn' = Turn("voice_menu", l, 0, Keys(digits),
                                old_call_sid, inferred_step,
                                IF digit = <<"1">> THEN "redirect"
                                ELSE IF old_call_sid # "" /\ inferred_step > 0
                                     THEN "prompt"
                                ELSE "redirect",
                                FALSE, "none")
                /\ offered' = IF digit # <<"1">> /\ old_call_sid # "" /\ inferred_step > 0
                              THEN offered \cup {l} ELSE offered
                /\ UNCHANGED <<config, store, confirmedJob, submitted>>
        /\ UNCHANGED requests

\* variant: silence is taken as a restart
resume_choice_SilenceRestarts(l, digits0) ==
    LET new_call_sid == l
        digits == IF Strip(digits0) = Empty THEN <<"2">> ELSE Strip(digits0)
        to_number == Strip(LegTo(l))
        from_number == Strip(LegFrom(l))
        old_call_sid == pc[l].old
        inferred_step == pc[l].step
        known == redis_client /\ to_number # Empty /\ from_number # Empty
    IN  /\ pc[l].at = "choice"
        /\ Keys(digits0) \in Answers(l)
        /\ IF Raises /\ (digits = <<"2">> \/ (old_call_sid # "" /\ inferred_step > 0))
           THEN Fails("resume_choice", l, inferred_step, Keys(digits0), FALSE)
           ELSE /\ IF digits = <<"2">>
                   THEN /\ resume' = IF known
                                     THEN clear_resume_pointer(resume, to_number,
                                                               from_number)
                                     ELSE resume
                        /\ alias' = alias
                        /\ pc' = [pc EXCEPT ![l] = At("intake", 0, "", "none")]
                   ELSE IF old_call_sid # "" /\ inferred_step > 0
                   THEN /\ alias' = set_call_alias(alias, new_call_sid, old_call_sid)
                        /\ resume' = IF known
                                     THEN save_resume_pointer(resume, to_number,
                                                              from_number, old_call_sid)
                                     ELSE resume
                        /\ pc' = [pc EXCEPT ![l] =
                                     At("process", inferred_step, "", "none")]
                   ELSE /\ alias' = alias
                        /\ resume' = resume
                        /\ pc' = [pc EXCEPT ![l] = At("intake", 0, "", "none")]
                /\ turn' = Turn("resume_choice", l, inferred_step,
                                Keys(digits0), old_call_sid,
                                inferred_step, "redirect", FALSE, "none")
                /\ UNCHANGED <<config, session, live, ghosts>>
        /\ UNCHANGED requests

\* /resume-choice: 2 starts over, anything else (silence too) resumes
resume_choice(l, digits0) ==
    LET new_call_sid == l
        digits == IF Strip(digits0) = Empty THEN <<"1">> ELSE Strip(digits0)
        to_number == Strip(LegTo(l))
        from_number == Strip(LegFrom(l))
        old_call_sid == pc[l].old
        inferred_step == pc[l].step
        known == redis_client /\ to_number # Empty /\ from_number # Empty
    IN  /\ pc[l].at = "choice"
        /\ Keys(digits0) \in Answers(l)
        /\ IF Raises /\ (digits = <<"2">> \/ (old_call_sid # "" /\ inferred_step > 0))
           THEN Fails("resume_choice", l, inferred_step, Keys(digits0), FALSE)
           ELSE /\ IF digits = <<"2">>
                   THEN /\ resume' = IF known
                                     THEN clear_resume_pointer(resume, to_number,
                                                               from_number)
                                     ELSE resume
                        /\ alias' = alias
                        /\ pc' = [pc EXCEPT ![l] = At("intake", 0, "", "none")]
                   ELSE IF old_call_sid # "" /\ inferred_step > 0
                   THEN /\ alias' = set_call_alias(alias, new_call_sid, old_call_sid)
                        /\ resume' = IF known
                                     THEN save_resume_pointer(resume, to_number,
                                                              from_number, old_call_sid)
                                     ELSE resume
                        /\ pc' = [pc EXCEPT ![l] =
                                     At("process", inferred_step, "", "none")]
                   ELSE /\ alias' = alias
                        /\ resume' = resume
                        /\ pc' = [pc EXCEPT ![l] = At("intake", 0, "", "none")]
                /\ turn' = Turn("resume_choice", l, inferred_step,
                                Keys(digits0), old_call_sid,
                                inferred_step, "redirect", FALSE, "none")
                /\ UNCHANGED <<config, session, live, ghosts>>
        /\ UNCHANGED requests

\* /voice-intake: start a fresh intake under the leg's own CallSid
voice_intake(l) ==
    LET call_sid == l
        to_number == Strip(LegTo(l))
        from_number == Strip(LegFrom(l))
        contractor_key == IF to_number # Empty THEN to_number ELSE Unknown
    IN  /\ pc[l].at = "intake"
        /\ IF Raises
           THEN Fails("voice_intake", l, 0, NoInput, FALSE)
           ELSE /\ session' = set_state(session, call_sid,
                                        FreshState(to_number, from_number))
                /\ live' = register_live_call(live, contractor_key, call_sid)
                /\ pc' = [pc EXCEPT ![l] = At("process", 0, "", "name")]
                /\ turn' = Turn("voice_intake", l, 0, NoInput, call_sid, 0, "prompt",
                                FALSE, "none")
                /\ UNCHANGED <<config, alias, resume, ghosts>>
        /\ UNCHANGED requests

-----------------------------------------------------------------------------
(* /voice-process *)

\* variant: the resume pointer is not consulted at step 0
Resolve_IgnoresPointer(new_call_sid, step, to_number, from_number) ==
    LET aliased == get_call_alias(new_call_sid)
        followed == IF aliased # "" THEN aliased ELSE new_call_sid
    IN  [call_sid |-> followed, alias |-> alias, swap |-> FALSE]

\* variant: the pointer is compared with the id the alias led to
Resolve_ComparesFollowed(new_call_sid, step, to_number, from_number) ==
    LET aliased == get_call_alias(new_call_sid)
        followed == IF aliased # "" THEN aliased ELSE new_call_sid
        old_call_sid == IF step = 0 /\ redis_client /\ to_number # Empty
                           /\ from_number # Empty
                        THEN get_resume_pointer(to_number, from_number) ELSE ""
        swap == old_call_sid # "" /\ old_call_sid # followed
    IN  [call_sid |-> IF swap THEN old_call_sid ELSE followed,
         alias |-> IF swap THEN set_call_alias(alias, new_call_sid, old_call_sid)
                   ELSE alias,
         swap |-> swap]

\* the alias is followed, then at step 0 a resume pointer to another CallSid wins
Resolve(new_call_sid, step, to_number, from_number) ==
    LET aliased == get_call_alias(new_call_sid)
        followed == IF aliased # "" THEN aliased ELSE new_call_sid
        old_call_sid == IF step = 0 /\ redis_client /\ to_number # Empty
                           /\ from_number # Empty
                        THEN get_resume_pointer(to_number, from_number) ELSE ""
        swap == old_call_sid # "" /\ old_call_sid # new_call_sid
    IN  [call_sid |-> IF swap THEN old_call_sid ELSE followed,
         alias |-> IF swap THEN set_call_alias(alias, new_call_sid, old_call_sid)
                   ELSE alias,
         swap |-> swap]

\* the setdefault calls and the caller's number as callback
Defaults(state, from_raw) ==
    [state EXCEPT !.callback = IF state.callback # Empty THEN state.callback
                               ELSE from_raw]

\* the loaded dict with its defaults
Loaded(call_sid, from_raw) == Defaults(get_state(call_sid), from_raw)

\* a request with step 0 is moved to the step the filled fields imply
EffectiveStep(step, state) ==
    IF step = 0 /\ _resume_step_from_fields(state) > 0
    THEN _resume_step_from_fields(state) ELSE step

Summary(call_sid, state) ==
    [sid |-> call_sid,
     complete |-> /\ state.name # Empty /\ state.service_address # Empty
                  /\ state.job_description # Empty /\ state.timing # Empty
                  /\ state.callback # Empty,
     callback |-> state.callback]

\* variant: an exception of the collaborators reaches the platform
Closing_Propagates(resp, collab) == IF collab = "raised" THEN "error" ELSE resp

\* try: send_intake_summary(state) / except Exception: the closing response is
\* built after the except clause, whether the call returned or raised
Closing(resp, collab) == IF collab \in {"ok", "raised"} THEN "terminal" ELSE resp

\* Only a request that can still be delivered again is remembered.
Remember(l, step, inp, again) ==
    IF redelivered + (IF again THEN 1 ELSE 0) >= scope.again
    THEN [k \in Legs |-> NoRequest]
    ELSE [last EXCEPT ![l] = [valid |-> TRUE, step |-> step, input |-> inp]]

\* /voice-process from the loaded dict on: the defaults, the step inferred for
\* a request with step 0, the step's branch with its writes to the store as
\* it is now, and the response
Complete(l, step, inp, again, call_sid, loaded) ==
    LET digits == Strip(inp.digits)
        speech == Strip(inp.speech)
        to_number == Strip(LegTo(l))
        from_number == Strip(LegFrom(l))
        known == redis_client /\ to_number # Empty /\ from_number # Empty
        state0 == Defaults(loaded, LegFrom(l))
        eff == EffectiveStep(step, state0)
        state1 == IF eff # step THEN [state0 EXCEPT !.step = eff] ELSE state0
        r == StepHandler(eff, state1, digits, speech, LegFrom(l))
        saved == set_state(session, call_sid, r.state)
        contractor_key == IF r.state.contractor_key # Empty
                          THEN r.state.contractor_key ELSE Unknown
    IN  /\ r.state.retries <= MaxRetries
        /\ session' = IF r.close THEN clear_state(saved, call_sid) ELSE saved
        /\ resume' = CASE r.ptr = "save" /\ known ->
                               save_resume_pointer(resume, to_number, from_number, call_sid)
                       [] r.ptr = "clear" /\ known ->
                               clear_resume_pointer(
                                   save_resume_pointer(resume, to_number, from_number,
                                                       call_sid),
                                   to_number, from_number)
                       [] OTHER -> resume
        /\ live' = IF r.close THEN unregister_live_call(live, contractor_key, call_sid)
                   ELSE live
        /\ submitted' = IF r.close THEN Append(submitted, Summary(call_sid, r.state))
                        ELSE submitted
        /\ confirmedJob' = IF eff = 2 /\ state1.job_description # Empty
                              /\ digits = <<"1">>
                           THEN Put(confirmedJob, call_sid, state1.job_description)
                           ELSE confirmedJob
        /\ UNCHANGED offered
        /\ pc' = Goto(l, IF r.resp = "terminal" THEN Done
                         ELSE At("process", r.next, "", r.mode))
        \* send_intake_summary returns or raises; either way the turn goes on
        /\ \E collab \in IF r.close THEN {"ok", "raised"} ELSE {"none"} :
               turn' = Turn("voice_process", l, step, inp, call_sid, eff,
                            Closing(r.resp, collab), again, collab)

\* the whole request at once: the session is resolved, loaded and written
\* with no other request in between
voice_process(l, step, inp, again) ==
    LET res == Resolve(l, step, Strip(LegTo(l)), Strip(LegFrom(l)))
    IN  /\ IF Raises
           THEN Fails("voice_process", l, step, inp, again)
           ELSE /\ alias' = res.alias
                /\ Complete(l, step, inp, again, res.call_sid, get_state(res.call_sid))
                /\ UNCHANGED config
        /\ last' = Remember(l, step, inp, again)
        /\ UNCHANGED inflight

\* the platform follows the URL of the leg's last response
Deliver(l, inp) ==
    /\ pc[l].at = "process"
    /\ pc[l].step <= scope.steps
    /\ PartIndex(pc[l].mode) <= scope.parts
    /\ inp \in Answers(l)
    /\ voice_process(l, pc[l].step, inp, FALSE)
    /\ UNCHANGED redelivered

\* the platform delivers the leg's latest /voice-process request once more
Redeliver(l) ==
    /\ last[l].valid
    /\ redelivered < scope.again
    /\ scope.late => pc[l].at = "done"
    /\ redelivered' = redelivered + 1
    /\ voice_process(l, last[l].step, last[l].input, TRUE)

\* A request of the leg that is delivered again runs beside the others: it
\* resolves and loads its session here and writes later, in Finish.
Begin(l) ==
    LET step == last[l].step
        res == Resolve(l, step, Strip(LegTo(l)), Strip(LegFrom(l)))
    IN  /\ last[l].valid
        /\ ~inflight[l].valid
        /\ redelivered < scope.again
        /\ scope.late => pc[l].at = "done"
        /\ redelivered' = redelivered + 1
        /\ IF Raises
           THEN /\ Fails("voice_process", l, step, last[l].input, TRUE)
                /\ UNCHANGED <<last, inflight>>
           ELSE /\ alias' = res.alias
                /\ inflight' = [inflight EXCEPT ![l] =
                                   [valid |-> TRUE, step |-> step,
                                    input |-> last[l].input, sid |-> res.call_sid,
                                    state |-> get_state(res.call_sid)]]
                /\ last' = [last EXCEPT ![l] = NoRequest]
                /\ UNCHANGED <<config, session, resume, live, pc, turn, ghosts>>

\* the request that had loaded its session goes on from the dict it loaded
Finish(l) ==
    /\ inflight[l].valid
    /\ IF Raises
       THEN /\ Fails("voice_process", l, inflight[l].step, inflight[l].input, TRUE)
       ELSE /\ Complete(l, inflight[l].step, inflight[l].input, TRUE,
                        inflight[l].sid, inflight[l].state)
            /\ UNCHANGED <<config, alias>>
    /\ inflight' = [inflight EXCEPT ![l] = NotInFlight]
    /\ UNCHANGED <<last, redelivered>>

\* the store becomes unreachable, or reachable again
Outage ==
    /\ redis_client
    /\ reachable' = ~reachable
    /\ UNCHANGED <<scope, redis_client, store, pc, requests, turn, ghosts>>

\* the caller hangs up
Hangup(l) ==
    /\ pc[l].at \notin {"idle", "done"}
    /\ pc' = [pc EXCEPT ![l] = Done]
    /\ turn' = Turn("hangup", l, 0, NoInput, "", 0, "none", FALSE, "none")
    /\ UNCHANGED <<config, store, requests, ghosts>>

AllInputs == UNION {InputsFor(m) : m \in {"none", "key", "house", "zip", "callback",
                                          "name", "city"}}

KeyInputs == {i.digits : i \in InputsFor("key")}

Next ==
    \/ \E l \in Legs : voice(l)
    \/ \E l \in Legs, d \in KeyInputs : voice_menu(l, d)
    \/ \E l \in Legs, d \in KeyInputs : resume_choice(l, d)
    \/ \E l \in Legs : voice_intake(l)
    \/ \E l \in Legs, inp \in AllInputs : Deliver(l, inp)
    \/ \E l \in Legs : Redeliver(l)
    \/ \E l \in Legs : Hangup(l)

Spec == Init /\ [][Next]_vars

SpecAlias == InitAlias /\ [][Next]_vars

\* the webhooks with a store that is not configured or that comes and goes
NextDegraded == Next \/ Outage

InitDegraded == \E client \in BOOLEAN : InitWith(DegradedScope, client)

SpecDegraded == InitDegraded /\ [][NextDegraded]_vars

InitCooperative == \E client \in BOOLEAN : InitWith(CooperativeScope, client)

\* the request the platform makes with the answer of leg l's caller
Answered(l) == \E inp \in AllInputs : Deliver(l, inp)

\* the same webhooks with callers who answer what is asked; the platform
\* delivers the first caller's answer for as long as that call is up
SpecDegradedLive ==
    InitCooperative /\ [][NextDegraded]_vars /\ WF_vars(Answered("CA1"))

\* the webhooks with a request that runs beside the others
NextRace ==
    \/ \E l \in Legs : voice(l)
    \/ \E l \in Legs, d \in KeyInputs : voice_menu(l, d)
    \/ \E l \in Legs, d \in KeyInputs : resume_choice(l, d)
    \/ \E l \in Legs : voice_intake(l)
    \/ \E l \in Legs, inp \in AllInputs : Deliver(l, inp)
    \/ \E l \in Legs : Begin(l)
    \/ \E l \in Legs : Finish(l)
    \/ \E l \in Legs : Hangup(l)

InitRace == InitIn(RaceScope)

SpecRace == InitRace /\ [][NextRace]_vars

-----------------------------------------------------------------------------
(* What a transition was: a /voice-process request handled for leg l *)

Processed == turn'.handler = "voice_process" /\ vars' # vars

PairOf(l) == <<Strip(LegTo(l)), Strip(LegFrom(l))>>

\* the resume pointer the request of leg l finds
PointerFor(l) == get_resume_pointer(PairOf(l)[1], PairOf(l)[2])

\* the CallSid of leg l after following its alias
Followed(l) == IF get_call_alias(l) # "" THEN get_call_alias(l) ELSE l

-----------------------------------------------------------------------------
(* C1: once a leg N has an alias N -> A, every /voice-process turn of N    *)
(* uses the session keyed A and leaves the session keyed N alone, and the  *)
(* turns of a leg that others are aliased to use that leg's own key.       *)
C1_OneSessionKey ==
    [][Processed =>
          LET n == turn'.leg
          IN  /\ n \in DOMAIN alias =>
                    /\ turn'.sid = alias[n]
                    /\ (n \in DOMAIN session') = (n \in DOMAIN session)
                    /\ n \in DOMAIN session => session'[n] = session[n]
              /\ (\E m \in DOMAIN alias : alias[m] = n) => turn'.sid = n]_vars

(* C2: no alias value is itself a key of the alias registry. *)
C2_SingleHop == \A x \in DOMAIN alias : alias[x] \notin DOMAIN alias

FieldOrder(s) == <<s.name, s.service_address, s.job_description, s.timing>>

FirstEmptyIndex(s) ==
    LET empties == {i \in 1..4 : FieldOrder(s)[i] = Empty}
    IN  IF empties = {} THEN 4
        ELSE (CHOOSE i \in empties : \A j \in empties : i <= j) - 1

C4_ResumeStepFromFields ==
    [][/\ turn'.handler = "voice_menu" /\ vars' # vars /\ PointerFor(turn'.leg) # "" =>
              LET n == turn'.leg
                  want == FirstEmptyIndex(get_state(PointerFor(n)))
              IN  /\ turn'.eff = want
                  /\ want > 0 /\ turn'.input.digits # <<"1">> =>
                         pc'[n] = At("choice", want, PointerFor(n), "choice")
       /\ turn'.handler = "resume_choice" /\ vars' # vars
              /\ pc'[turn'.leg].at = "process" =>
              pc'[turn'.leg].step = pc[turn'.leg].step
       /\ Processed /\ turn'.step = 0 =>
              turn'.eff = FirstEmptyIndex(get_state(turn'.sid))]_vars

\* the menu found a session whose stored step is not the step its fields imply
C4_Witness ==
    /\ turn.handler = "voice_menu"
    /\ turn.sid \in DOMAIN session
    /\ turn.eff = 3
    /\ session[turn.sid].step = 2
    /\ pc[turn.leg] = At("choice", 3, turn.sid, "choice")

(* C5: after a step-4 turn with a usable callback value the session of the *)
(* canonical id does not exist, the pair has no resume pointer and the id  *)
(* is in no live-call set, whether the collaborators return or raise.      *)
UsableCallback(inp) == Strip(inp.digits) # Empty \/ Strip(inp.speech) # Empty

C5_CloseOut ==
    turn.handler = "voice_process" /\ turn.eff = 4 /\ UsableCallback(turn.input) =>
        /\ turn.sid \notin DOMAIN session
        /\ PairOf(turn.leg) \notin DOMAIN resume
        /\ \A k \in DOMAIN live : turn.sid \notin live[k]
        /\ turn.resp = "terminal"
        /\ turn.collab \in {"ok", "raised"}

C5_Witness ==
    /\ turn.handler = "voice_process" /\ turn.eff = 4 /\ UsableCallback(turn.input)
    /\ turn.collab = "raised"
    /\ turn.sid # turn.leg
    /\ submitted # <<>> /\ submitted[Len(submitted)].complete

(* C6: a /voice-process request delivered twice in succession leaves the   *)
(* store as one delivery left it and gets the same class of response.      *)
C6_IdempotentRedelivery ==
    [][/\ Processed /\ turn'.again
       /\ turn.handler = "voice_process" /\ ~turn.again
       /\ turn.leg = turn'.leg /\ turn.step = turn'.step /\ turn.input = turn'.input
       => store' = store /\ turn'.resp = turn.resp]_vars

(* C7: a non-empty name, service_address, job_description or timing of a   *)
(* session is not made empty by any turn, except job_description by a      *)
(* press of 2 at step 2, and except a fresh start under the same CallSid.  *)
FieldNames == {"name", "service_address", "job_description", "timing"}

C7_FieldsNotCleared ==
    [][\A sid \in (DOMAIN session) \cap (DOMAIN session'), f \in FieldNames :
           session[sid][f] # Empty /\ session'[sid][f] = Empty =>
               \/ /\ Processed /\ turn'.sid = sid /\ turn'.eff = 2
                  /\ turn'.input.digits = <<"2">> /\ f = "job_description"
               \/ turn'.handler = "voice_intake" /\ turn'.leg = sid]_vars

\* a redelivered turn ran on a session whose four fields are all filled
C7_Witness ==
    /\ turn.handler = "voice_process" /\ turn.again
    /\ turn.sid \in DOMAIN session
    /\ \A f \in FieldNames : session[turn.sid][f] # Empty

(* C8: the stored step of a session never decreases across /voice-process *)
(* turns.                                                                  *)
C8_StepNeverDecreases ==
    [][Processed =>
          \A sid \in (DOMAIN session) \cap (DOMAIN session') :
              session'[sid].step >= session[sid].step]_vars

(* C9: name becomes non-empty only by a press of 1, or by the press of 2   *)
(* that exhausts the repeats, at step 0; a stored job_description is one   *)
(* that a press of 1 at step 2 confirmed.                                  *)
C9_StoredOnlyOnceConfirmed ==
    [][\A sid \in DOMAIN session' :
           /\ session'[sid].name # Empty /\ get_state(sid).name = Empty =>
                  /\ Processed /\ turn'.sid = sid /\ turn'.eff = 0
                  /\ \/ turn'.input.digits = <<"1">>
                     \/ /\ turn'.input.digits = <<"2">>
                        /\ get_state(sid).name_attempts + 1 >= NameAttemptCap
           /\ session'[sid].job_description # Empty =>
                  /\ sid \in DOMAIN confirmedJob'
                  /\ confirmedJob'[sid] = session'[sid].job_description]_vars

(* C10: step 3 is entered only for a description that a press of 1 at      *)
(* step 2 confirmed.                                                       *)
C10_NoUnconfirmedJob ==
    [][Processed /\ turn'.eff = 3 =>
          /\ get_state(turn'.sid).job_description # Empty
          /\ turn'.sid \in DOMAIN confirmedJob
          /\ confirmedJob[turn'.sid] = get_state(turn'.sid).job_description]_vars

-----------------------------------------------------------------------------
(* C11: at step 0 a press of 2 on a stored candidate discards the          *)
(* candidate and asks for the name again when it is the first repeat, and  *)
(* stores the candidate as name, resets name_attempts and moves to step 1  *)
(* when it is the second; name_attempts never counts past one repeat.      *)
RepeatPress ==
    /\ Processed /\ turn'.eff = 0 /\ turn'.input.digits = <<"2">>
    /\ Strip(get_state(turn'.sid).name_candidate) # Empty

C11_TwoRepeatsAcceptName ==
    [][/\ RepeatPress =>
              LET before == get_state(turn'.sid)
                  after == session'[turn'.sid]
              IN  /\ turn'.sid \in DOMAIN session'
                  /\ turn'.resp = "redirect"
                  /\ after.name_candidate = Empty
                  /\ IF before.name_attempts = 0
                     THEN /\ after.name = Empty /\ after.name_attempts = 1
                          /\ after.step = before.step
                          /\ ~turn'.again => pc'[turn'.leg] = At("process", 0, "", "none")
                     ELSE /\ before.name_attempts = 1
                          /\ after.name = Strip(before.name_candidate)
                          /\ after.name_attempts = 0 /\ after.step = 1
                          /\ ~turn'.again => pc'[turn'.leg] = At("process", 1, "", "none")
       /\ \A sid \in DOMAIN session' : session'[sid].name_attempts <= 1]_vars

\* the second repeat has just stored the candidate as the name
C11_Witness ==
    /\ turn.handler = "voice_process" /\ turn.eff = 0 /\ ~turn.again
    /\ turn.input.digits = <<"2">> /\ turn.resp = "redirect"
    /\ turn.sid \in DOMAIN session
    /\ session[turn.sid].name = <<"O", "a", "k">>
    /\ session[turn.sid].step = 1
    /\ pc[turn.leg] = At("process", 1, "", "none")

-----------------------------------------------------------------------------
(* C12: after CA1 delivered one step-0 turn with speech and was hung up, a *)
(* step-0 turn of CA2 with the same numbers writes the alias CA2 -> CA1,   *)
(* is moved to step 1 and is answered with the house-number prompt.        *)
SpokenNameOnly ==
    /\ pc["CA1"] = Done /\ "CA1" \in DOMAIN session
    /\ session["CA1"].name = Empty /\ session["CA1"].name_candidate # Empty
    /\ session["CA1"].name_attempts = 0

SecondLegTurn ==
    /\ Processed /\ turn'.leg = "CA2" /\ turn'.step = 0 /\ ~turn'.again
    /\ turn'.input.digits = Empty
    /\ "CA2" \notin DOMAIN alias

C12_ResumeAfterSpokenName ==
    [][SpokenNameOnly /\ SecondLegTurn =>
          /\ "CA2" \in DOMAIN alias' /\ alias'["CA2"] = "CA1"
          /\ turn'.sid = "CA1" /\ turn'.eff = 1
          /\ pc'["CA2"] = At("process", 1, "", "house")]_vars

(* C12, amended: after CA1 delivered a step-0 turn with speech and a       *)
(* step-0 turn with a press of 1 and was hung up, a step-0 turn of CA2     *)
(* without keys that finds the resume pointer at CA1 writes the alias      *)
(* CA2 -> CA1, is moved to step 1, keeps the name and is answered with the *)
(* address intro if that was not played yet and with the house-number      *)
(* prompt otherwise.                                                       *)
ConfirmedNameOnly ==
    /\ pc["CA1"] = Done /\ "CA1" \in DOMAIN session
    /\ session["CA1"].name # Empty /\ session["CA1"].service_address = Empty
    /\ session["CA1"].addr_number = Empty
    /\ PointerFor("CA2") = "CA1"

C12_ResumeAfterConfirmedName ==
    [][ConfirmedNameOnly /\ SecondLegTurn =>
          /\ "CA2" \in DOMAIN alias' /\ alias'["CA2"] = "CA1"
          /\ turn'.sid = "CA1" /\ turn'.eff = 1
          /\ session'["CA1"].name = session["CA1"].name
          /\ session'["CA1"].address_intro_played
          /\ pc'["CA2"] = IF session["CA1"].address_intro_played
                           THEN At("process", 1, "", "house")
                           ELSE At("process", 1, "", "none")]_vars

\* CA2 said a name at step 0 and was asked for the house number of CA1's session
C12_Witness ==
    /\ turn.handler = "voice_process" /\ turn.leg = "CA2" /\ turn.step = 0
    /\ turn.input.speech # Empty /\ ~turn.again
    /\ turn.sid = "CA1" /\ turn.eff = 1 /\ turn.resp = "prompt"
    /\ pc["CA1"] = Done /\ pc["CA2"] = At("process", 1, "", "house")
    /\ DOMAIN alias = {"CA2"} /\ alias["CA2"] = "CA1"
    /\ session["CA1"].name # Empty /\ session["CA1"].addr_number = Empty
    /\ session["CA2"].name = Empty

-----------------------------------------------------------------------------
(* C13: at step 1 the keyed house number is stored as its digits, the      *)
(* spoken street and city as spoken, the keyed zip as its five digits, and *)
(* with the four parts N, S, C, Z stored the turn stores service_address   *)
(* "N S, C Z" and step 2.                                                  *)
Spaced(a, b) == a \o <<" ">> \o b

C13_AddressAssembled ==
    [][Processed /\ turn'.eff = 1 /\ get_state(turn'.sid).address_intro_played =>
          LET before == get_state(turn'.sid)
              after == session'[turn'.sid]
              digits == turn'.input.digits
              speech == turn'.input.speech
          IN  IF before.addr_number = Empty
                  THEN Len(DigitsOnly(digits)) >= 1 => after.addr_number = DigitsOnly(digits)
              ELSE IF before.addr_street = Empty
                  THEN speech # Empty => after.addr_street = Strip(speech)
              ELSE IF before.addr_city = Empty
                  THEN speech # Empty => after.addr_city = Strip(speech)
              ELSE IF before.addr_zip = Empty
                  THEN Len(DigitsOnly(digits)) = ZipLength =>
                           after.addr_zip = DigitsOnly(digits)
              ELSE /\ after.service_address =
                          Spaced(Spaced(before.addr_number, before.addr_street)
                                     \o <<",">>,
                                 Spaced(before.addr_city, before.addr_zip))
                   /\ after.step = 2]_vars

\* 45, Oak, Bo, 20715 were given in turn and the address was assembled
C13_Witness ==
    /\ turn.handler = "voice_process" /\ turn.eff = 1 /\ ~turn.again
    /\ turn.sid \in DOMAIN session
    /\ session[turn.sid].service_address =
           <<"4", "5", " ", "O", "a", "k", ",", " ", "B", "o", " ",
             "2", "0", "7", "1", "5">>
    /\ session[turn.sid].step = 2
    /\ pc[turn.leg] = At("process", 2, "", "job")

-----------------------------------------------------------------------------
(* C14: in every stored session a later address part is set only if the    *)
(* earlier ones are, addr_number is one or more digits, addr_zip is five   *)
(* digits, and service_address is set only if the four parts are; a step-1 *)
(* turn stores step 2 only with the four parts set.                        *)
AllDigits(s) == \A i \in DOMAIN s : IsDigit(s[i])

PartsInOrder(s) ==
    /\ s.addr_zip # Empty => s.addr_city # Empty
    /\ s.addr_city # Empty => s.addr_street # Empty
    /\ s.addr_street # Empty => s.addr_number # Empty
    /\ s.addr_number # Empty => AllDigits(s.addr_number)
    /\ s.addr_zip # Empty => AllDigits(s.addr_zip) /\ Len(s.addr_zip) = 5
    /\ s.service_address # Empty =>
           /\ s.addr_number # Empty /\ s.addr_street # Empty
           /\ s.addr_city # Empty /\ s.addr_zip # Empty

C14_AddressPartsInOrder ==
    [][/\ \A sid \in DOMAIN session' : PartsInOrder(session'[sid])
       /\ Processed /\ turn'.eff = 1 /\ turn'.sid \in DOMAIN session'
             /\ session'[turn'.sid].step = 2 =>
              session'[turn'.sid].service_address # Empty]_vars

\* a zip of three digits was refused and the zip is still asked for
C14_Witness ==
    /\ turn.handler = "voice_process" /\ turn.eff = 1
    /\ turn.input.digits = <<"2", "0", "7">> /\ turn.resp = "redirect"
    /\ turn.sid \in DOMAIN session
    /\ session[turn.sid].addr_city # Empty
    /\ session[turn.sid].addr_zip = Empty
    /\ session[turn.sid].service_address = Empty

-----------------------------------------------------------------------------
(* C15: the first step-1 turn on a session plays the address intro and     *)
(* sets address_intro_played; the flag stays set as long as the session    *)
(* exists, whichever leg the turns come from; and with the flag set a      *)
(* silent step-1 turn is answered with the prompt for the first missing    *)
(* address part, not with the intro.                                       *)
FirstMissingPart(s) ==
    IF s.addr_number = Empty THEN "house"
    ELSE IF s.addr_street = Empty THEN "street"
    ELSE IF s.addr_city = Empty THEN "city"
    ELSE IF s.addr_zip = Empty THEN "zip"
    ELSE "job"

C15_IntroPlayedOnce ==
    [][/\ \A sid \in (DOMAIN session) \cap (DOMAIN session') :
              session[sid].address_intro_played => session'[sid].address_intro_played
       /\ Processed /\ turn'.eff = 1 =>
              LET before == get_state(turn'.sid)
              IN  /\ turn'.sid \in DOMAIN session'
                  /\ session'[turn'.sid].address_intro_played
                  /\ ~before.address_intro_played =>
                         /\ turn'.resp = "redirect"
                         /\ session'[turn'.sid] =
                                [before EXCEPT !.address_intro_played = TRUE,
                                               !.retries = 0,
                                               !.callback = session'[turn'.sid].callback,
                                               !.step = session'[turn'.sid].step]
                  /\ before.address_intro_played /\ turn'.input = NoInput =>
                         /\ turn'.resp = "prompt"
                         /\ ~turn'.again =>
                                pc'[turn'.leg].mode = FirstMissingPart(before)]_vars

\* a leg resumed onto a session whose intro was played is asked for the house
\* number at its first step-1 turn
C15_Witness ==
    /\ turn.handler = "voice_process" /\ turn.eff = 1 /\ ~turn.again
    /\ turn.leg # turn.sid /\ turn.input = NoInput
    /\ turn.resp = "prompt" /\ pc[turn.leg].mode = "house"
    /\ turn.sid \in DOMAIN session
    /\ session[turn.sid].address_intro_played

-----------------------------------------------------------------------------
(* C16: a silent step-3 turn is answered with the hangup only when the     *)
(* caller was already prompted for timing twice, and always then.  The     *)
(* retries counter is 0 when step 3 is entered and goes up by one with     *)
(* every timing prompt, so it counts the prompts given so far.             *)
C16_TwoPromptsBeforeHangup ==
    [][Processed /\ turn'.eff = 3 /\ turn'.input.speech = Empty =>
          LET prompted == get_state(turn'.sid).retries
          IN  /\ turn'.resp = "terminal" => prompted >= 2
              /\ prompted >= 2 => turn'.resp = "terminal"
              /\ turn'.resp \in {"prompt", "terminal"}]_vars

-----------------------------------------------------------------------------
(* C17: a turn that answers a prompt with silence and is answered with a   *)
(* prompt again increases a retry counter of the session (retries or       *)
(* name_attempts), so that repeated silence runs into a cap.               *)
C17_SilenceIsCounted ==
    [][/\ Processed /\ ~turn'.again /\ turn'.input = NoInput
       /\ pc[turn'.leg].at = "process" /\ pc[turn'.leg].mode # "none"
       /\ turn'.resp = "prompt"
       => LET before == get_state(turn'.sid)
              after == session'[turn'.sid]
          IN  \/ after.retries > before.retries
              \/ after.name_attempts > before.name_attempts]_vars

-----------------------------------------------------------------------------
(* C18: a step-4 turn with a usable value hands on, as the callback of the *)
(* intake, the digits of the keyed input (of the speech when nothing was   *)
(* keyed) when these are seven or more, and the caller's number otherwise. *)
C18_CallbackNormalised ==
    [][Processed /\ turn'.eff = 4 /\ UsableCallback(turn'.input) =>
          LET given == IF turn'.input.digits # Empty THEN turn'.input.digits
                       ELSE turn'.input.speech
              kept == DigitsOnly(given)
          IN  /\ Len(submitted') = Len(submitted) + 1
              /\ submitted'[Len(submitted')].callback =
                     IF Len(kept) >= 7 THEN kept ELSE Strip(LegFrom(turn'.leg))]_vars

\* "555 1234" was said and 5551234 was handed on
C18_Witness ==
    /\ turn.handler = "voice_process" /\ turn.eff = 4
    /\ turn.input = Said(<<"5", "5", "5", " ", "1", "2", "3", "4">>)
    /\ submitted # <<>>
    /\ submitted[Len(submitted)].callback = <<"5", "5", "5", "1", "2", "3", "4">>
    /\ submitted[Len(submitted)].sid = turn.sid

(* C19: the completion collaborators are handed an intake only inside a   *)
(* /voice-process turn that runs step 4 with a usable callback value; a   *)
(* fresh start, a menu turn, a resume-choice turn, the intake redirect    *)
(* and every step 0-3 turn leave the list of handed-over intakes alone    *)
(* and report no collaborator call.                                       *)
C19_CollaboratorsOnlyAtStep4 ==
    [][/\ submitted' # submitted =>
            /\ Processed
            /\ turn'.eff = LastStep
            /\ UsableCallback(turn'.input)
            /\ submitted' = Append(submitted, submitted'[Len(submitted')])
            /\ turn'.collab \in {"ok", "raised"}
       /\ turn'.collab # "none" => submitted' # submitted
       /\ turn' # turn /\ ~(Processed /\ turn'.eff = LastStep) =>
            /\ submitted' = submitted
            /\ turn'.collab = "none"]_vars

\* a step-4 turn has just handed over the first intake of a leg that went
\* through the menu and the earlier steps without any collaborator call
C19_Witness ==
    /\ turn.handler = "voice_process"
    /\ turn.eff = LastStep
    /\ UsableCallback(turn.input)
    /\ turn.collab = "ok"
    /\ Len(submitted) = 1
    /\ submitted[1].complete

(* C20: whenever a turn hands an intake to the completion collaborators   *)
(* and tells the caller that the intake succeeded, the session handed     *)
(* over has name, service_address, job_description, timing and callback   *)
(* all non-empty, also when the session was gone before the step-4 turn.  *)
C20_SubmittedIsComplete ==
    [][Processed /\ turn'.collab \in {"ok", "raised"} /\ turn'.resp = "terminal" =>
            /\ Len(submitted') = Len(submitted) + 1
            /\ submitted'[Len(submitted')].complete]_vars

(* C21: when the CRM or the notification call raises during a step-4 turn  *)
(* the turn still answers with the terminal success instruction (closing  *)
(* statement and hangup), as it does when they return, and the leg is over.*)
C21_FailureSwallowed ==
    [][Processed /\ turn'.collab \in {"ok", "raised"} =>
            /\ turn'.resp = "terminal"
            /\ pc'[turn'.leg] = Done
            /\ turn'.sid \notin DOMAIN session']_vars

\* a complete intake was handed over and the collaborators raised
C21_Witness ==
    /\ turn.handler = "voice_process" /\ turn.eff = LastStep
    /\ turn.collab = "raised" /\ turn.resp = "terminal"
    /\ submitted # <<>> /\ submitted[Len(submitted)].complete
    /\ pc[turn.leg] = Done

(* C24: at /resume-choice a press of 2 clears the resume pointer of the     *)
(* pair, writes no alias for the new CallSid and sends the caller to a     *)
(* fresh start; any other input, silence included, with an older CallSid   *)
(* and an inferred step above 0 writes the alias new -> old, sets the      *)
(* pointer to the old CallSid and enters /voice-process at that step.      *)
C24_ResumeChoice ==
    [][turn'.handler = "resume_choice" /\ vars' # vars =>
          LET n == turn'.leg
              d == Strip(turn'.input.digits)
              old == pc[n].old
              st == pc[n].step
          IN  IF d = <<"2">>
              THEN /\ PairOf(n) \notin DOMAIN resume'
                   /\ alias' = alias
                   /\ n \notin DOMAIN alias'
                   /\ pc'[n] = At("intake", 0, "", "none")
              ELSE old # "" /\ st > 0 =>
                       /\ n \in DOMAIN alias' /\ alias'[n] = old
                       /\ PairOf(n) \in DOMAIN resume' /\ resume'[PairOf(n)] = old
                       /\ pc'[n] = At("process", st, "", "none")
                       /\ session' = session]_vars

\* the caller said nothing at the choice and was resumed onto the older CallSid
C24_Witness ==
    /\ turn.handler = "resume_choice" /\ turn.input = NoInput
    /\ turn.leg = "CA2" /\ turn.sid = "CA1"
    /\ "CA2" \in DOMAIN alias /\ alias["CA2"] = "CA1"
    /\ PointerFor("CA2") = "CA1"
    /\ pc["CA2"].at = "process" /\ pc["CA2"].step = 3

(* C25: a CallSid is a member of its contractor's live-call set exactly     *)
(* from its fresh start until its conversation is completed or abandoned:  *)
(* it is a member after /voice-intake, and it is no member after the       *)
(* step-4 close-out, after the hangup that ends step 3, and after the      *)
(* caller has restarted on a new leg.                                      *)
C25_LiveUntilOver ==
    [][LET members == UNION {live'[k] : k \in DOMAIN live'}
       IN  /\ turn'.handler = "voice_intake" /\ vars' # vars => turn'.sid \in members
           /\ Processed /\ turn'.resp = "terminal" => turn'.sid \notin members
           /\ turn'.handler = "resume_choice" /\ vars' # vars
                  /\ Strip(turn'.input.digits) = <<"2">> =>
                  turn'.sid \notin members]_vars

(* C26: in every reachable state a resume pointer of a pair that points to  *)
(* CallSid X has a stored session keyed X, and that session has not been   *)
(* closed out by step 4.                                                   *)
C26_PointerHasOpenSession ==
    \A p \in DOMAIN resume :
        /\ resume[p] \in DOMAIN session
        /\ \A i \in DOMAIN submitted : submitted[i].sid # resume[p]

(* C27: a fresh start (/voice-intake) for CallSid C stores the session     *)
(* keyed C with step 0, retries 0, empty name, service_address,            *)
(* job_description and timing, the caller's number as callback and the     *)
(* called number as contractor_key, adds C to that contractor's live-call  *)
(* set, and writes no alias and no resume pointer.                         *)
C27_FreshStart ==
    [][turn'.handler = "voice_intake" /\ vars' # vars =>
          LET c == turn'.leg
              to_number == Strip(LegTo(c))
          IN  /\ turn'.sid = c
              /\ c \in DOMAIN session'
              /\ session'[c].step = 0 /\ session'[c].retries = 0
              /\ session'[c].name = Empty /\ session'[c].service_address = Empty
              /\ session'[c].job_description = Empty /\ session'[c].timing = Empty
              /\ session'[c].callback = Strip(LegFrom(c))
              /\ session'[c].contractor_key = to_number
              /\ to_number \in DOMAIN live' /\ c \in live'[to_number]
              /\ \A x \in DOMAIN session : x # c =>
                     x \in DOMAIN session' /\ session'[x] = session[x]
              /\ alias' = alias
              /\ resume' = resume]_vars

\* the second leg started afresh beside the first leg's session
C27_Witness ==
    /\ turn.handler = "voice_intake" /\ turn.leg = "CA2" /\ turn.sid = "CA2"
    /\ DOMAIN session = {"CA1", "CA2"}
    /\ session["CA2"] = FreshState(Strip(LegTo("CA2")), Strip(LegFrom("CA2")))
    /\ "CA2" \in list_live_calls(Strip(LegTo("CA2")))
    /\ "CA2" \notin DOMAIN alias

(* C30: a step-1 turn whose digits are invalid (no digit where the house   *)
(* number is asked, a zip that is not exactly 5 digits) asks again and     *)
(* leaves the session as it was: retries, step, every address part and     *)
(* service_address keep their values, and no resume pointer is written.    *)
InvalidDigits(state, digits) ==
    /\ state.address_intro_played
    /\ Strip(digits) # Empty
    /\ \/ state.addr_number = Empty /\ DigitsOnly(Strip(digits)) = Empty
       \/ /\ state.addr_number # Empty /\ state.addr_street # Empty
          /\ state.addr_city # Empty /\ state.addr_zip = Empty
          /\ Len(DigitsOnly(Strip(digits))) # ZipLength

C30_InvalidDigitsKeepSession ==
    [][Processed /\ turn'.eff = 1 /\ turn'.sid \in DOMAIN session
          /\ InvalidDigits(session[turn'.sid], turn'.input.digits) =>
            /\ turn'.resp = "redirect"
            /\ pc'[turn'.leg] \in {Done, At("process", 1, "", "none")}
            /\ session' = session
            /\ resume' = resume]_vars

\* three keys were given for the zip and the zip is still asked for
C30_Witness ==
    /\ turn.handler = "voice_process" /\ turn.eff = 1
    /\ turn.input.digits = <<"2", "0", "7">>
    /\ turn.resp = "redirect"
    /\ turn.sid \in DOMAIN session
    /\ session[turn.sid].addr_city # Empty /\ session[turn.sid].addr_zip = Empty

(* C22: while the key-value store is unavailable every read of a session,  *)
(* an alias, a resume pointer or a live-call set returns empty and every   *)
(* write or delete is a no-op, and every turn (menu, resume-choice, fresh  *)
(* start, /voice-process at any step) still answers with an instruction,   *)
(* handled as if the conversation were fresh.                              *)
Unavailable == ~redis_client \/ ~reachable

HandlerStep ==
    /\ vars' # vars
    /\ reachable' = reachable
    /\ turn'.handler \in {"voice_menu", "resume_choice", "voice_intake", "voice_process"}

C22_UnavailableIsFresh ==
    [][Unavailable /\ HandlerStep =>
          /\ store' = store
          /\ turn'.resp # "error"
          /\ turn'.handler = "voice_menu" /\ Strip(turn'.input.digits) # <<"1">> =>
                 pc'[turn'.leg] = At("intake", 0, "", "none")
          /\ turn'.handler = "voice_process" =>
                 /\ turn'.sid = turn'.leg
                 /\ turn'.eff = turn'.step]_vars

(* C23: with the store unavailable the caller is never stuck: a caller who *)
(* answers every prompt with valid input gets through steps 0 to 4 and to  *)
(* a terminal instruction, and no step repeats its prompt or redirect for  *)
(* ever.                                                                   *)
C23_DegradedCallerGetsThrough ==
    (~redis_client /\ pc["CA1"].at = "process") ~> (pc["CA1"].at = "done")

(* C28: the close-out is atomic and not resumable under interleaving: when *)
(* another turn for the same CallSid is in flight while a step-4 turn      *)
(* closes the conversation out, then after both turns have finished the   *)
(* session and the resume pointer of that conversation still do not exist. *)
ClosedOutInFlight(l) ==
    /\ inflight[l].valid
    /\ inflight[l].sid \in {submitted[i].sid : i \in DOMAIN submitted}
    /\ inflight[l].state # EmptyState
    /\ inflight[l].sid \notin DOMAIN session

C28_CloseOutStaysClosed ==
    [][\A l \in Legs :
          ClosedOutInFlight(l) /\ ~inflight'[l].valid =>
              /\ inflight[l].sid \notin DOMAIN session'
              /\ \A p \in DOMAIN resume' : resume'[p] # inflight[l].sid]_vars

(* C29: for any interleaving of two /voice-process turns on the same       *)
(* CallSid, each loading the whole session and then writing the whole      *)
(* session, a field that one turn captured and stored is still in the      *)
(* session after both turns have finished.                                 *)
Captured == <<"name", "addr_number", "addr_street", "addr_city", "addr_zip",
              "service_address", "job_description", "timing">>

\* the fields stored under sid since the in-flight turn of leg l loaded it
StoredMeanwhile(l) ==
    {i \in DOMAIN Captured :
        /\ inflight[l].sid \in DOMAIN session
        /\ session[inflight[l].sid][Captured[i]] # Empty
        /\ inflight[l].state[Captured[i]] = Empty}

C29_NoLostUpdate ==
    [][\A l \in Legs :
          inflight[l].valid /\ ~inflight'[l].valid /\ turn'.resp # "error" =>
              \A i \in StoredMeanwhile(l) :
                  \/ inflight[l].sid \notin DOMAIN session'
                  \/ session'[inflight[l].sid][Captured[i]] # Empty]_vars

-----------------------------------------------------------------------------
(* C31: whenever a /voice-process turn of a call leg runs on the session   *)
(* of an older CallSid, that leg was given the resume offer (press 2 to    *)
(* start over) by its menu turn before; no /voice-process turn moves a leg *)
(* onto an older session without the offer.                                *)
C31_AdoptionAfterOffer ==
    [][Processed /\ ~turn'.again /\ turn'.sid # turn'.leg => turn'.leg \in offered]_vars

(* C32: a leg resumed at step 3 is not answered with the hangup before it  *)
(* was given a timing prompt: a step-3 turn of a leg that runs on an older *)
(* CallSid's session returns the hangup only in answer to a timing prompt  *)
(* of that leg, whatever retries value the earlier leg left.               *)
C32_ResumedLegIsPrompted ==
    [][Processed /\ ~turn'.again /\ turn'.eff = 3 /\ turn'.sid # turn'.leg
          /\ turn'.resp = "terminal" =>
            pc[turn'.leg].mode = "timing"]_vars

(* C33: the completion collaborators are handed at most one intake per     *)
(* conversation (canonical CallSid), whatever the sequence of turns: a     *)
(* step-4 turn delivered again, or one that arrives after the close-out,   *)
(* hands nothing over.                                                     *)
C33_HandedOverOnce ==
    \A i, j \in DOMAIN submitted : submitted[i].sid = submitted[j].sid => i = j

(* C34: once a conversation was closed out at step 4 and its session is    *)
(* gone, a later /voice-process turn on the same CallSid, at any step,     *)
(* leaves that CallSid without a session and without a resume pointer.     *)
ClosedOut(sid) ==
    /\ \E i \in DOMAIN submitted : submitted[i].sid = sid
    /\ sid \notin DOMAIN session
    /\ \A p \in DOMAIN resume : resume[p] # sid

C34_ClosedOutIsNotRecreated ==
    [][Processed /\ ClosedOut(turn'.sid) =>
          /\ turn'.sid \notin DOMAIN session'
          /\ \A p \in DOMAIN resume' : resume'[p] # turn'.sid]_vars

(* C35: in every stored session the step agrees with the fields: a step of *)
(* 1 or more has a name, of 2 or more a service_address, of 3 or more a    *)
(* job_description, and step 4 has a timing.                               *)
StepAgreesWithFields(s) ==
    /\ s.step >= 1 => s.name # Empty
    /\ s.step >= 2 => s.service_address # Empty
    /\ s.step >= 3 => s.job_description # Empty
    /\ s.step = 4 => s.timing # Empty

C35_StepAgreesWithFields ==
    \A sid \in DOMAIN session : StepAgreesWithFields(session[sid])

(* C36: every stored session has a step in 0..4 and a name_attempts of 0   *)
(* or 1; a turn that runs step 0 sets the name only on a press of 1 or 2   *)
(* and then to the stored candidate, which is not empty; and a turn that   *)
(* runs step 0 with any other key leaves name, name_candidate and          *)
(* name_attempts as they were.                                             *)
C36_NameCommit ==
    [][/\ \A sid \in DOMAIN session' :
              /\ session'[sid].step \in 0..LastStep
              /\ session'[sid].name_attempts \in {0, 1}
       /\ Processed /\ turn'.eff = 0 =>
              LET before == get_state(turn'.sid)
                  after == session'[turn'.sid]
                  digits == Strip(turn'.input.digits)
              IN  /\ turn'.sid \in DOMAIN session'
                  /\ after.name # before.name =>
                         /\ digits \in {<<"1">>, <<"2">>}
                         /\ after.name = Strip(before.name_candidate)
                         /\ after.name # Empty
                  /\ digits # Empty /\ digits \notin {<<"1">>, <<"2">>} =>
                         /\ after.name = before.name
                         /\ after.name_candidate = before.name_candidate
                         /\ after.name_attempts = before.name_attempts]_vars

\* a 9 was pressed at the confirmation of the name after one repeat; the
\* candidate and the count are still stored and the confirmation is asked again
C36_Witness ==
    /\ turn.handler = "voice_process" /\ turn.eff = 0 /\ ~turn.again
    /\ turn.input.digits = <<"9">> /\ turn.resp = "prompt"
    /\ turn.sid \in DOMAIN session
    /\ session[turn.sid].name = Empty
    /\ session[turn.sid].name_candidate = <<"O", "a", "k">>
    /\ session[turn.sid].name_attempts = 1
    /\ pc[turn.leg] = At("process", 0, "", "key")

(* C37: a /voice-menu turn leaves the session, alias, resume-pointer and   *)
(* live-call keyspaces as they were; a press of 1 goes to the emergency    *)
(* branch, and any other input goes to the resume offer exactly when the   *)
(* pair has a resume pointer and the step inferred from that session is    *)
(* above 0, and to a fresh start otherwise.                                *)
C37_MenuWritesNothing ==
    [][turn'.handler = "voice_menu" /\ vars' # vars =>
          LET n == turn'.leg
              p == PointerFor(n)
              inferred == IF p # "" THEN FirstEmptyIndex(get_state(p)) ELSE 0
          IN  /\ store' = store
              /\ pc'[n] = IF Strip(turn'.input.digits) = <<"1">> THEN Done
                          ELSE IF p # "" /\ inferred > 0
                               THEN At("choice", inferred, p, "choice")
                               ELSE At("intake", 0, "", "none")
              /\ turn'.resp = IF pc'[n].at = "choice" THEN "prompt" ELSE "redirect"]_vars

\* the second leg pressed 1 at the menu while the pair had a resume pointer to
\* a session with progress: emergency branch, store as it was
C37_Witness ==
    /\ turn.handler = "voice_menu" /\ turn.leg = "CA2"
    /\ turn.input.digits = <<"1">> /\ turn.resp = "redirect"
    /\ pc["CA2"] = Done
    /\ PointerFor("CA2") = "CA1"
    /\ "CA1" \in DOMAIN session /\ session["CA1"].name # Empty
    /\ "CA1" \in list_live_calls(Strip(LegTo("CA1")))
    /\ alias = <<>>

====
